---- MODULE Spec2Model ----
(***************************************************************************)
(* Model of docs/app.py: the clause extractor extract_clauses_from_text    *)
(* (a line scanner driven by one regular expression) and the Streamlit     *)
(* session around it (login gate, page navigation, tender upload).         *)
(*                                                                         *)
(* A Python str is modelled as a sequence of one-character strings, so     *)
(* that splitlines, strip and the regular expression are computed          *)
(* character by character.                                                 *)
(***************************************************************************)
EXTENDS Integers, Sequences, FiniteSets, TLC

VARIABLES
    \* ---- extract_clauses_from_text (one or more invocations) ----
    raw_text,        \* the argument of the call
    pc,              \* position in the function: "start", "loop", "done"
    lines,           \* local `lines`
    idx,             \* position of the for-loop in `lines`
    clauses,         \* local `clauses`
    current_clause,  \* local `current_clause` (None or one dict)
    returned,        \* the values returned so far, one per invocation
    \* ---- the Streamlit session ----
    secrets,         \* st.secrets["auth"]: [username, password]
    PDF_SUPPORT,     \* whether pdfplumber could be imported
    session_state,   \* st.session_state
    page,            \* value of the sidebar radio
    uploaded_file,   \* value of the file uploader
    event,           \* the widget interaction that triggered the last rerun
    gate,            \* whether the last rerun got past st.stop()
    widgets,         \* the widgets the last rerun rendered
    status           \* the message the page showed in the last rerun

extractor_vars == <<raw_text, pc, lines, idx, clauses, current_clause, returned>>
app_vars == <<secrets, PDF_SUPPORT, session_state, page, uploaded_file, event, gate,
              widgets, status>>
vars == <<raw_text, pc, lines, idx, clauses, current_clause, returned,
          secrets, PDF_SUPPORT, session_state, page, uploaded_file, event, gate,
          widgets, status>>

-----------------------------------------------------------------------------
(* Bounds *)

\* longest input text, in raw lines
MaxLines == 3

-----------------------------------------------------------------------------
(* Python values *)

\* Python's None; an optional value is <<>> or <<v>>
None == <<>>

Some(v) == <<v>>

\* str.isspace / regex \s, over the alphabet of the model
IsSpace(c) == c \in {" ", "\t", "\n", "\r"}

\* regex \d
IsDigit(c) == c \in {"0", "1", "2", "3", "4", "5", "6", "7", "8", "9"}

\* line boundaries of str.splitlines, over the alphabet of the model
IsLineBreak(c) == c \in {"\n", "\r"}

RECURSIVE SplitFrom(_, _, _, _)
SplitFrom(s, i, cur, acc) ==
    IF i > Len(s)
    THEN IF cur = <<>> THEN acc ELSE Append(acc, cur)
    ELSE IF s[i] = "\r" /\ i < Len(s) /\ s[i + 1] = "\n"
    THEN SplitFrom(s, i + 2, <<>>, Append(acc, cur))
    ELSE IF IsLineBreak(s[i])
    THEN SplitFrom(s, i + 1, <<>>, Append(acc, cur))
    ELSE SplitFrom(s, i + 1, Append(cur, s[i]), acc)

\* str.splitlines(): "\r\n" is one boundary, no empty last line
splitlines(s) == SplitFrom(s, 1, <<>>, <<>>)

\* str.strip(): drop leading and trailing whitespace
strip(s) ==
    LET keep == {i \in 1..Len(s) : ~IsSpace(s[i])}
    IN  IF keep = {} THEN <<>>
        ELSE LET first == CHOOSE i \in keep : \A j \in keep : i <= j
                 last == CHOOSE i \in keep : \A j \in keep : j <= i
             IN  SubSeq(s, first, last)

\* lines = [line.strip() for line in raw_text.splitlines()]
StrippedLines(s) ==
    LET ls == splitlines(s) IN [i \in 1..Len(ls) |-> strip(ls[i])]

-----------------------------------------------------------------------------
\* clause_pattern: a number (digit runs joined by single dots), then at
\* least one whitespace character, then the rest of the line

\* last index of the run of digits that starts at i (i - 1 if there is none)
RECURSIVE DigitsEnd(_, _)
DigitsEnd(s, i) ==
    IF i <= Len(s) /\ IsDigit(s[i]) THEN DigitsEnd(s, i + 1) ELSE i - 1

\* last index of the number matched greedily from i, where s[i] is a digit
RECURSIVE NumberEnd(_, _)
NumberEnd(s, i) ==
    LET e == DigitsEnd(s, i)
    IN  IF e + 2 <= Len(s) /\ s[e + 1] = "." /\ IsDigit(s[e + 2])
        THEN NumberEnd(s, e + 2)
        ELSE e

\* last index of the run of whitespace that starts at i (i - 1 if there is none)
RECURSIVE SpaceEnd(_, _)
SpaceEnd(s, i) ==
    IF i <= Len(s) /\ IsSpace(s[i]) THEN SpaceEnd(s, i + 1) ELSE i - 1

\* the pattern with \s* in place of \s+
clause_pattern_match_optional_space(line) ==
    IF line = <<>> \/ ~IsDigit(line[1]) THEN None
    ELSE LET e == NumberEnd(line, 1)
             w == SpaceEnd(line, e + 1)
         IN  Some([group1 |-> SubSeq(line, 1, e),
                   group2 |-> SubSeq(line, w + 1, Len(line))])

\* the pattern with the first group closed after \s+
clause_pattern_match_wide_group(line) ==
    IF line = <<>> \/ ~IsDigit(line[1]) THEN None
    ELSE LET e == NumberEnd(line, 1)
             w == SpaceEnd(line, e + 1)
         IN  IF w = e THEN None
             ELSE Some([group1 |-> SubSeq(line, 1, w),
                        group2 |-> SubSeq(line, w + 1, Len(line))])

\* clause_pattern.match(line): None, or the two groups of the match.
\* Backtracking into the number cannot help (the character after a shorter
\* number is a digit or a dot, never whitespace), so the greedy match decides.
clause_pattern_match(line) ==
    IF line = <<>> \/ ~IsDigit(line[1]) THEN None
    ELSE LET e == NumberEnd(line, 1)
             w == SpaceEnd(line, e + 1)
         IN  IF w = e THEN None
             ELSE Some([group1 |-> SubSeq(line, 1, e),
                        group2 |-> SubSeq(line, w + 1, Len(line))])

-----------------------------------------------------------------------------
(* extract_clauses_from_text: the body of the for-loop and the epilogue,   *)
(* on the pair of locals st = [clauses, current_clause]                    *)

\* clauses = [] ; current_clause = None
InitLocals == [clauses |-> <<>>, current_clause |-> None]

\* a new label that repeats the open clause's label is merged into it
LoopBodyDedup(st, line) ==
    IF line = <<>> THEN st
    ELSE LET match == clause_pattern_match(line)
         IN  IF match # None
             THEN IF st.current_clause # None
                     /\ st.current_clause[1].clause_no = match[1].group1
                  THEN [st EXCEPT !.current_clause[1].clause_text =
                                      @ \o <<" ">> \o strip(match[1].group2)]
                  ELSE [clauses |-> IF st.current_clause # None
                                    THEN Append(st.clauses, st.current_clause[1])
                                    ELSE st.clauses,
                        current_clause |->
                            Some([clause_no |-> match[1].group1,
                                  clause_text |-> strip(match[1].group2)])]
             ELSE IF st.current_clause # None
                  THEN [st EXCEPT !.current_clause[1].clause_text = @ \o <<" ">> \o line]
                  ELSE st

\* a continuation line is appended without the separating space
LoopBodyNoSeparator(st, line) ==
    IF line = <<>> THEN st
    ELSE LET match == clause_pattern_match(line)
         IN  IF match # None
             THEN [clauses |-> IF st.current_clause # None
                               THEN Append(st.clauses, st.current_clause[1])
                               ELSE st.clauses,
                   current_clause |->
                       Some([clause_no |-> match[1].group1,
                             clause_text |-> strip(match[1].group2)])]
             ELSE IF st.current_clause # None
                  THEN [st EXCEPT !.current_clause[1].clause_text = @ \o line]
                  ELSE st

\* a line before the first label opens a clause of its own, without a label
LoopBodyKeepPreamble(st, line) ==
    IF line = <<>> THEN st
    ELSE LET match == clause_pattern_match(line)
         IN  IF match # None
             THEN [clauses |-> IF st.current_clause # None
                               THEN Append(st.clauses, st.current_clause[1])
                               ELSE st.clauses,
                   current_clause |->
                       Some([clause_no |-> match[1].group1,
                             clause_text |-> strip(match[1].group2)])]
             ELSE IF st.current_clause # None
                  THEN [st EXCEPT !.current_clause[1].clause_text = @ \o <<" ">> \o line]
                  ELSE [st EXCEPT !.current_clause =
                            Some([clause_no |-> <<>>, clause_text |-> line])]

\* a blank line closes the open clause
LoopBodyBlankCloses(st, line) ==
    IF line = <<>>
    THEN [clauses |-> IF st.current_clause # None
                      THEN Append(st.clauses, st.current_clause[1])
                      ELSE st.clauses,
          current_clause |-> None]
    ELSE LET match == clause_pattern_match(line)
         IN  IF match # None
             THEN [clauses |-> IF st.current_clause # None
                               THEN Append(st.clauses, st.current_clause[1])
                               ELSE st.clauses,
                   current_clause |->
                       Some([clause_no |-> match[1].group1,
                             clause_text |-> strip(match[1].group2)])]
             ELSE IF st.current_clause # None
                  THEN [st EXCEPT !.current_clause[1].clause_text = @ \o <<" ">> \o line]
                  ELSE st

\* one iteration of `for line in lines`
LoopBody(st, line) ==
    IF line = <<>> THEN st
    ELSE LET match == clause_pattern_match(line)
         IN  IF match # None
             THEN [clauses |-> IF st.current_clause # None
                               THEN Append(st.clauses, st.current_clause[1])
                               ELSE st.clauses,
                   current_clause |->
                       Some([clause_no |-> match[1].group1,
                             clause_text |-> strip(match[1].group2)])]
             ELSE IF st.current_clause # None
                  THEN [st EXCEPT !.current_clause[1].clause_text = @ \o <<" ">> \o line]
                  ELSE st

\* the epilogue appends a clause whether or not one is open
EpilogueAlways(st) ==
    Append(st.clauses,
           IF st.current_clause # None THEN st.current_clause[1]
           ELSE [clause_no |-> <<>>, clause_text |-> <<>>])

\* if current_clause: clauses.append(current_clause) ; return clauses
Epilogue(st) ==
    IF st.current_clause # None
    THEN Append(st.clauses, st.current_clause[1])
    ELSE st.clauses

RECURSIVE Scan(_, _, _)
Scan(st, ls, i) ==
    IF i > Len(ls) THEN st ELSE Scan(LoopBody(st, ls[i]), ls, i + 1)

\* the function as a whole
extract_clauses_from_text(text) ==
    Epilogue(Scan(InitLocals, StrippedLines(text), 1))

-----------------------------------------------------------------------------
(* Input texts: up to MaxLines raw lines joined by "\n" *)

RawLines ==
    { <<>>,                                      \* an empty line
      <<" ", "\t">>,                             \* a whitespace-only line
      <<"1", " ", "a">>,                         \* "1 a": a label line
      <<" ", "2", ".", "1", "\t", "b", " ">>,    \* " 2.1<TAB>b ": a label line to trim
      <<"c", " ", "d">>,                         \* "c d": plain text
      <<"2", ".", "1">>,                         \* "2.1": a bare number
      <<"1", ".", " ", "a">>,                    \* "1. a": a trailing dot
      <<"1", ".", ".", "2", " ", "a">>,          \* "1..2 a": two dots in a row
      <<"b", "\r">> }                            \* "b<CR>": ends in a carriage return

RECURSIVE JoinNL(_)
JoinNL(ls) ==
    IF ls = <<>> THEN <<>>
    ELSE IF Len(ls) = 1 THEN ls[1]
    ELSE ls[1] \o <<"\n">> \o JoinNL(Tail(ls))

LineSeqs == UNION {[1..n -> RawLines] : n \in 0..MaxLines}

Inputs == {JoinNL(ls) : ls \in LineSeqs}

-----------------------------------------------------------------------------
(* The state machine of extract_clauses_from_text, called twice on         *)
(* raw_text                                                                *)

\* the session before the script has run
AppIdle ==
    /\ secrets = [username |-> None, password |-> None]
    /\ PDF_SUPPORT = FALSE
    /\ session_state = [password_correct |-> None, username |-> None,
                        password |-> None, tender_clauses |-> None,
                        library_index |-> None]
    /\ page = "View Documents"
    /\ uploaded_file = None
    /\ event = [kind |-> "none", text |-> ""]
    /\ gate = FALSE
    /\ widgets = {}
    /\ status = "none"

Init ==
    /\ raw_text \in Inputs
    /\ pc = "start"
    /\ lines = <<>>
    /\ idx = 1
    /\ clauses = <<>>
    /\ current_clause = None
    /\ returned = <<>>
    /\ AppIdle

\* the list `clauses` outlives the call (as a module-level or default-argument
\* list would)
CallSharedList ==
    /\ pc = "start"
    /\ lines' = StrippedLines(raw_text)
    /\ clauses' = clauses
    /\ current_clause' = InitLocals.current_clause
    /\ idx' = 1
    /\ pc' = "loop"
    /\ UNCHANGED <<raw_text, returned>>
    /\ UNCHANGED app_vars

\* entry: lines, clause_pattern, clauses = [], current_clause = None
Call ==
    /\ pc = "start"
    /\ lines' = StrippedLines(raw_text)
    /\ clauses' = InitLocals.clauses
    /\ current_clause' = InitLocals.current_clause
    /\ idx' = 1
    /\ pc' = "loop"
    /\ UNCHANGED <<raw_text, returned>>
    /\ UNCHANGED app_vars

\* one iteration of the for-loop
Iterate ==
    /\ pc = "loop"
    /\ idx <= Len(lines)
    /\ LET st == LoopBody([clauses |-> clauses, current_clause |-> current_clause],
                          lines[idx])
       IN  /\ clauses' = st.clauses
           /\ current_clause' = st.current_clause
    /\ idx' = idx + 1
    /\ UNCHANGED <<raw_text, pc, lines, returned>>
    /\ UNCHANGED app_vars

\* after the loop: append the open clause, return clauses
Return ==
    /\ pc = "loop"
    /\ idx > Len(lines)
    /\ clauses' = Epilogue([clauses |-> clauses, current_clause |-> current_clause])
    /\ returned' = Append(returned, clauses')
    /\ pc' = IF returned = <<>> THEN "start" ELSE "done"
    /\ UNCHANGED <<raw_text, lines, idx, current_clause>>
    /\ UNCHANGED app_vars

Next == Call \/ Iterate \/ Return

Spec == Init /\ [][Next]_vars

-----------------------------------------------------------------------------
(* The Streamlit session: every widget interaction runs the widget's       *)
(* callback, if it has one, and then the whole script again                *)

\* dict.get(key, default) on an optional value
Get(opt, default) == IF opt = None THEN default ELSE opt[1]

\* Python truthiness of an optional string
Truthy(opt) == opt # None /\ opt[1] # ""

\* what st.secrets may hold for auth.username and auth.password
SecretValues == {None, Some(""), Some("admin")}

\* what a user may type into a text_input
TypedValues == {"", "admin", "guest"}

Pages == {"View Documents", "Prepare / Index Library", "Upload Tender & Extract Clauses"}

\* allowed_types of the file uploader
AllowedTypes ==
    IF PDF_SUPPORT THEN {"docx", "xlsx", "xls", "pdf"} ELSE {"docx", "xlsx", "xls"}

\* the text the reader of the file's format gets out of an uploaded file
FileTexts ==
    { <<>>,                                                  \* nothing
      <<" ", "\n", "\t">>,                                   \* blank lines only
      <<"c", " ", "d">>,                                     \* text without a label
      <<"1", " ", "a">>,                                     \* one clause
      <<"1", " ", "a", "\n", "c", "\n", "2", ".", "1", " ", "b">> }   \* two clauses

\* the .docx files of the category folders: [category, file_name, text]
LibraryFiles ==
    << [category |-> "Corporate Profile", file_name |-> "profile.docx",
        text |-> <<"c", " ", "d">>],
       [category |-> "Technical Profile", file_name |-> "empty.docx",
        text |-> <<" ">>] >>

\* index_library(): one entry per document whose text is not blank
index_library == SelectSeq(LibraryFiles, LAMBDA d : strip(d.text) # <<>>)

\* both auth secrets are present and non-empty
SecretsConfigured == Truthy(secrets.username) /\ Truthy(secrets.password)

\* the callback accepts when either value is right
password_entered_either(ss) ==
    IF Get(ss.username, "") = secrets.username[1]
       \/ Get(ss.password, "") = secrets.password[1]
    THEN [ss EXCEPT !.password_correct = Some(TRUE), !.password = None]
    ELSE [ss EXCEPT !.password_correct = Some(FALSE)]

\* password_entered(): the on_change callback of the Password input
password_entered(ss) ==
    IF Get(ss.username, "") = secrets.username[1]
       /\ Get(ss.password, "") = secrets.password[1]
    THEN [ss EXCEPT !.password_correct = Some(TRUE), !.password = None]
    ELSE [ss EXCEPT !.password_correct = Some(FALSE)]

\* check_password(): its return value
check_password(ss) ==
    IF ~SecretsConfigured THEN FALSE
    ELSE IF ss.password_correct = None THEN FALSE
    ELSE IF ~ss.password_correct[1] THEN FALSE
    ELSE TRUE

\* check_password(): the inputs it renders
LoginWidgets(ss) ==
    IF ~SecretsConfigured THEN {}
    ELSE IF ss.password_correct = None \/ ~ss.password_correct[1]
    THEN {"username", "password"}
    ELSE {}

\* the raw text of the uploaded file, by its extension
RawTextOf(file) ==
    IF file.ext = "pdf" /\ ~PDF_SUPPORT THEN <<>> ELSE file.text

\* the handler stores whatever the extractor returned
ExtractHandlerAlwaysStore(ss, file) ==
    LET text == RawTextOf(file)
    IN  IF text = <<>> \/ strip(text) = <<>>
        THEN [ss |-> ss, status |-> "no text"]
        ELSE LET found == extract_clauses_from_text(text)
             IN  [ss |-> [ss EXCEPT !.tender_clauses = Some(found)],
                  status |-> IF found = <<>> THEN "no clauses" ELSE "extracted"]

\* the body of `if st.button("Extract Clauses")`
ExtractHandler(ss, file) ==
    LET text == RawTextOf(file)
    IN  IF text = <<>> \/ strip(text) = <<>>
        THEN [ss |-> ss, status |-> "no text"]
        ELSE LET found == extract_clauses_from_text(text)
             IN  IF found = <<>>
                 THEN [ss |-> ss, status |-> "no clauses"]
                 ELSE [ss |-> [ss EXCEPT !.tender_clauses = Some(found)],
                       status |-> "extracted"]

\* one run of the script: the login gate, then the selected page.
\* clicked is the button whose click started the run, or "none".
RunScript(ss, pg, file, clicked) ==
    IF ~check_password(ss)
    THEN [ss |-> ss, gate |-> FALSE, widgets |-> LoginWidgets(ss), status |-> "none"]
    ELSE IF pg = "Prepare / Index Library"
    THEN IF clicked = "index"
         THEN [ss |-> [ss EXCEPT !.library_index = Some(index_library)],
               gate |-> TRUE, widgets |-> {"page", "index_button"},
               status |-> "indexed"]
         ELSE [ss |-> ss, gate |-> TRUE, widgets |-> {"page", "index_button"},
               status |-> "none"]
    ELSE IF pg = "Upload Tender & Extract Clauses"
    THEN IF file = None
         THEN [ss |-> ss, gate |-> TRUE, widgets |-> {"page", "uploader"},
               status |-> "none"]
         ELSE IF clicked = "extract"
         THEN LET done == ExtractHandler(ss, file[1])
              IN  [ss |-> done.ss, gate |-> TRUE,
                   widgets |-> {"page", "uploader", "extract_button"},
                   status |-> done.status]
         ELSE [ss |-> ss, gate |-> TRUE,
               widgets |-> {"page", "uploader", "extract_button"}, status |-> "none"]
    ELSE [ss |-> ss, gate |-> TRUE, widgets |-> {"page"}, status |-> "none"]

\* the extractor variables while the session runs
ExtractorIdle ==
    /\ raw_text = <<>>
    /\ pc = "done"
    /\ lines = <<>>
    /\ idx = 1
    /\ clauses = <<>>
    /\ current_clause = None
    /\ returned = <<>>

InitApp ==
    /\ ExtractorIdle
    /\ secrets \in [username : SecretValues, password : SecretValues]
    /\ PDF_SUPPORT \in BOOLEAN
    /\ session_state = [password_correct |-> None, username |-> None,
                        password |-> None, tender_clauses |-> None,
                        library_index |-> None]
    /\ page = "View Documents"
    /\ uploaded_file = None
    /\ event = [kind |-> "none", text |-> ""]
    /\ gate = FALSE
    /\ widgets = {}
    /\ status = "none"

\* the effect of a run on the session
Ran(ss, pg, file, clicked) ==
    LET run == RunScript(ss, pg, file, clicked)
    IN  /\ session_state' = run.ss
        /\ gate' = run.gate
        /\ widgets' = run.widgets
        /\ status' = run.status

\* the session opens, or the user reruns the script
Rerun ==
    /\ event' = [kind |-> "rerun", text |-> ""]
    /\ Ran(session_state, page, uploaded_file, "none")
    /\ UNCHANGED <<secrets, PDF_SUPPORT, page, uploaded_file>>
    /\ UNCHANGED extractor_vars

\* the user changes the Username input (it has no callback)
EnterUsername ==
    /\ "username" \in widgets
    /\ \E u \in TypedValues :
        /\ u # Get(session_state.username, "")
        /\ event' = [kind |-> "username", text |-> u]
        /\ Ran([session_state EXCEPT !.username = Some(u)], page, uploaded_file, "none")
    /\ UNCHANGED <<secrets, PDF_SUPPORT, page, uploaded_file>>
    /\ UNCHANGED extractor_vars

\* the user changes the Password input: on_change=password_entered, then the run
EnterPassword ==
    /\ "password" \in widgets
    /\ \E pw \in TypedValues :
        /\ pw # Get(session_state.password, "")
        /\ event' = [kind |-> "password", text |-> pw]
        /\ Ran(password_entered([session_state EXCEPT !.password = Some(pw)]),
               page, uploaded_file, "none")
    /\ UNCHANGED <<secrets, PDF_SUPPORT, page, uploaded_file>>
    /\ UNCHANGED extractor_vars

\* the user picks a page in the sidebar radio; the uploader of a page that
\* is no longer rendered loses its file
SelectPage ==
    /\ "page" \in widgets
    /\ \E pg \in Pages \ {page} :
        /\ page' = pg
        /\ uploaded_file' = None
        /\ event' = [kind |-> "page", text |-> ""]
        /\ Ran(session_state, pg, None, "none")
    /\ UNCHANGED <<secrets, PDF_SUPPORT>>
    /\ UNCHANGED extractor_vars

\* the user uploads a file of an allowed type, or removes the file
UploadFile ==
    /\ "uploader" \in widgets
    /\ \E f \in {None} \cup {Some([ext |-> e, text |-> t]) : e \in AllowedTypes, t \in FileTexts} :
        /\ f # uploaded_file
        /\ uploaded_file' = f
        /\ event' = [kind |-> "upload", text |-> ""]
        /\ Ran(session_state, page, f, "none")
    /\ UNCHANGED <<secrets, PDF_SUPPORT, page>>
    /\ UNCHANGED extractor_vars

\* the user clicks "Extract Clauses"
ClickExtract ==
    /\ "extract_button" \in widgets
    /\ event' = [kind |-> "extract", text |-> ""]
    /\ Ran(session_state, page, uploaded_file, "extract")
    /\ UNCHANGED <<secrets, PDF_SUPPORT, page, uploaded_file>>
    /\ UNCHANGED extractor_vars

\* the user clicks "Index / Refresh Library"
ClickIndex ==
    /\ "index_button" \in widgets
    /\ event' = [kind |-> "index", text |-> ""]
    /\ Ran(session_state, page, uploaded_file, "index")
    /\ UNCHANGED <<secrets, PDF_SUPPORT, page, uploaded_file>>
    /\ UNCHANGED extractor_vars

NextApp ==
    \/ Rerun
    \/ EnterUsername
    \/ EnterPassword
    \/ SelectPage
    \/ UploadFile
    \/ ClickExtract
    \/ ClickIndex

SpecApp == InitApp /\ [][NextApp]_vars

-----------------------------------------------------------------------------
(* What the specification says of the extractor, stated on the input text  *)
(* alone: the non-blank trimmed lines, the label pattern, the segments     *)

\* the non-blank trimmed lines of raw_text, in order
TextLines == SelectSeq(StrippedLines(raw_text), LAMBDA l : l # <<>>)

\* the hierarchical-numbering pattern: groups of digits separated by single
\* dots, no leading or trailing dot, no two dots in a row
IsNumber(s) ==
    /\ s # <<>>
    /\ \A i \in 1..Len(s) : IsDigit(s[i]) \/ s[i] = "."
    /\ IsDigit(s[1])
    /\ IsDigit(s[Len(s)])
    /\ \A i \in 1..(Len(s) - 1) : ~(s[i] = "." /\ s[i + 1] = ".")

\* the lengths k such that l[1..k] is a number and l[k+1] is whitespace
LabelLengths(l) ==
    {k \in 1..(Len(l) - 1) : IsNumber(SubSeq(l, 1, k)) /\ IsSpace(l[k + 1])}

\* the label pattern: a number, then at least one whitespace character
IsLabelLine(l) == LabelLengths(l) # {}

LabelString(l) == SubSeq(l, 1, CHOOSE k \in LabelLengths(l) : TRUE)

Remainder(l) == SubSeq(l, 1 + (CHOOSE k \in LabelLengths(l) : TRUE), Len(l))

\* a line of digits and dots only
OnlyDigitsAndDots(l) ==
    /\ l # <<>>
    /\ \A i \in 1..Len(l) : IsDigit(l[i]) \/ l[i] = "."

LabelPositions == {i \in 1..Len(TextLines) : IsLabelLine(TextLines[i])}

\* the position in TextLines of the n-th label line
NthLabel(n) ==
    CHOOSE p \in LabelPositions : Cardinality({q \in LabelPositions : q <= p}) = n

\* the last line of the segment that the label line at p opens
SegmentEnd(p) ==
    LET later == {q \in LabelPositions : q > p}
    IN  IF later = {} THEN Len(TextLines)
        ELSE (CHOOSE q \in later : \A r \in later : q <= r) - 1

RECURSIVE SpaceJoined(_, _)
SpaceJoined(from, to) ==
    IF from > to THEN <<>>
    ELSE <<" ">> \o TextLines[from] \o SpaceJoined(from + 1, to)

SegmentText(p) == strip(Remainder(TextLines[p])) \o SpaceJoined(p + 1, SegmentEnd(p))

Min(a, b) == IF a <= b THEN a ELSE b

\* a call has just returned
JustReturned == returned # <<>> /\ pc \in {"start", "done"}

\* the list it returned
Result == returned[Len(returned)]

\* C1: a call returns exactly one clause per non-blank trimmed line that
\* matches the label pattern, in order of appearance, with clause_no the
\* line's label string: no deduplication, no reordering, no merging, and the
\* last open clause is the final element.
C1_OneClausePerLabelLine ==
    JustReturned =>
        /\ Len(Result) = Cardinality(LabelPositions)
        /\ \A n \in 1..Len(Result) :
               Result[n].clause_no = LabelString(TextLines[NthLabel(n)])

\* a text of three label lines, out of order and with a repeated label
C1_Witness ==
    /\ pc = "done"
    /\ Len(returned[1]) = 3
    /\ returned[1][1].clause_no = <<"2", ".", "1">>
    /\ returned[1][2].clause_no = <<"1">>
    /\ returned[1][3].clause_no = <<"1">>

\* C2: the clause_text of every returned clause is the trimmed remainder of
\* its label line followed, for each later non-blank line before the next
\* label line, by one space and that trimmed line.
C2_TextIsSegment ==
    JustReturned =>
        \A n \in 1..Min(Len(Result), Cardinality(LabelPositions)) :
            Result[n].clause_text = SegmentText(NthLabel(n))

\* label, continuation, next label: "a c d" then "b"
C2_Witness ==
    /\ pc = "done"
    /\ Len(returned[1]) = 2
    /\ returned[1][1].clause_text = <<"a", " ", "c", " ", "d">>
    /\ returned[1][2].clause_text = <<"b">>

\* C3: a text that is empty or has only blank lines yields the empty list.
C3_BlankInputYieldsEmpty ==
    (JustReturned /\ TextLines = <<>>) => Result = <<>>

\* a non-empty text of blank lines only, after the call returned
C3_Witness ==
    /\ pc = "done"
    /\ Len(raw_text) > 1
    /\ TextLines = <<>>
    /\ returned[1] = <<>>

\* the text from its first label line on
WithoutPreamble ==
    IF LabelPositions = {} THEN <<>>
    ELSE JoinNL(SubSeq(TextLines, NthLabel(1), Len(TextLines)))

\* C4: when the first non-blank line is no label line, the lines before
\* the first label line are dropped: the result is that of the text without
\* them, and it is empty if no line matches.
C4_PreambleDropped ==
    (JustReturned /\ TextLines # <<>> /\ ~IsLabelLine(TextLines[1])) =>
        /\ Result = extract_clauses_from_text(WithoutPreamble)
        /\ LabelPositions = {} => Result = <<>>

\* "c d" before "1 a": one clause, "1" with text "a"
C4_Witness ==
    /\ pc = "done"
    /\ TextLines # <<>>
    /\ ~IsLabelLine(TextLines[1])
    /\ returned[1] = << [clause_no |-> <<"1">>, clause_text |-> <<"a">>] >>

\* C5: a line of digits and dots only never starts a clause: the iteration
\* appends it to the open clause, or drops it if none is open.
C5_BareNumberContinues ==
    [][ (pc = "loop" /\ idx <= Len(lines) /\ OnlyDigitsAndDots(lines[idx])) =>
            /\ clauses' = clauses
            /\ IF current_clause = None
               THEN current_clause' = None
               ELSE current_clause' =
                        Some([clause_no |-> current_clause[1].clause_no,
                              clause_text |-> current_clause[1].clause_text
                                                 \o <<" ">> \o lines[idx]])
      ]_vars

\* "1 a" then "2.1": the single clause "1" with text "a 2.1"
C5_Witness ==
    /\ pc = "done"
    /\ returned[1] = << [clause_no |-> <<"1">>,
                         clause_text |-> <<"a", " ", "2", ".", "1">>] >>

\* raw_text without its blank lines
WithoutBlankLines ==
    JoinNL(SelectSeq(splitlines(raw_text), LAMBDA l : strip(l) # <<>>))

\* C6: blank lines never end or separate clauses: the result is that of the
\* text with every blank line removed (so two texts that differ only in
\* blank lines have the same result).
C6_BlankLinesIgnored ==
    JustReturned => Result = extract_clauses_from_text(WithoutBlankLines)

\* a blank line between a label line and its continuation line
C6_Witness ==
    /\ pc = "done"
    /\ Len(lines) = 3
    /\ IsLabelLine(lines[1])
    /\ lines[2] = <<>>
    /\ lines[3] # <<>>
    /\ ~IsLabelLine(lines[3])
    /\ Len(returned[1]) = 1

\* C7: the calls on the same text return equal lists, and a list once
\* returned is not changed by a later call.
C7_CallsIndependent ==
    /\ [](\A c, d \in 1..Len(returned) : returned[c] = returned[d])
    /\ [][\A c \in 1..Len(returned) : returned'[c] = returned[c]]_vars

\* two calls that returned the same two clauses
C7_Witness ==
    /\ pc = "done"
    /\ Len(returned) >= 2
    /\ Len(returned[1]) = 2
    /\ returned[2] = returned[1]

\* C8: every returned clause has a clause_no that is a hierarchical number,
\* and a clause_text that is not empty (a label line always has text after
\* the whitespace, so the empty text the data model allows for never occurs).
C8_ClauseWellFormed ==
    JustReturned =>
        \A n \in 1..Len(Result) :
            /\ IsNumber(Result[n].clause_no)
            /\ Result[n].clause_text # <<>>

\* a text with a label line and a number on a line of its own
C8_Witness ==
    /\ pc = "done"
    /\ returned[1] # <<>>
    /\ \E i \in 1..Len(TextLines) : IsNumber(TextLines[i])

-----------------------------------------------------------------------------
(* The session: the login gate and the stored extraction result *)

\* the entered username and password both equal the configured values, for
\* a step whose event is a change of the Password input
CredentialsMatch ==
    /\ SecretsConfigured
    /\ Get(session_state.username, "") = secrets.username[1]
    /\ event'.text = secrets.password[1]

\* anything only the code after the gate does has happened
PastGate ==
    \/ gate
    \/ widgets \cap {"page", "uploader", "extract_button", "index_button"} # {}
    \/ status # "none"
    \/ session_state.tender_clauses # None
    \/ session_state.library_index # None

\* C9: the code after the gate runs only with both secrets configured and
\* password_correct True; password_correct becomes True only in a
\* password_entered callback whose username and password both equal the
\* configured values, and any other run of the callback sets it to False.
C9_LoginGate ==
    /\ [](PastGate => (SecretsConfigured /\ session_state.password_correct = Some(TRUE)))
    /\ [][ (session_state'.password_correct = Some(TRUE)
              /\ session_state.password_correct # Some(TRUE))
           => (event'.kind = "password" /\ CredentialsMatch) ]_vars
    /\ [][ (event'.kind = "password" /\ ~CredentialsMatch)
           => session_state'.password_correct = Some(FALSE) ]_vars

\* the run right after the accepted password: the gate is passed and the
\* password is no longer in session_state
C9_Witness ==
    /\ gate
    /\ event.kind = "password"
    /\ session_state.password_correct = Some(TRUE)
    /\ session_state.password = None

\* the extraction of the uploaded file found no text, or no clauses
ExtractionEmpty ==
    \/ uploaded_file = None
    \/ strip(RawTextOf(uploaded_file[1])) = <<>>
    \/ extract_clauses_from_text(RawTextOf(uploaded_file[1])) = <<>>

\* C10: tender_clauses is written only by an extraction that returned a
\* non-empty list, so it is never an empty list; an extraction that finds no
\* text or no clauses leaves it as it was.
C10_TenderClausesKept ==
    /\ [](session_state.tender_clauses # None => session_state.tender_clauses[1] # <<>>)
    /\ [][ session_state'.tender_clauses # session_state.tender_clauses
           => /\ event'.kind = "extract"
              /\ ~ExtractionEmpty
              /\ session_state'.tender_clauses =
                     Some(extract_clauses_from_text(RawTextOf(uploaded_file[1]))) ]_vars
    /\ [][ (event'.kind = "extract" /\ ExtractionEmpty)
           => /\ session_state'.tender_clauses = session_state.tender_clauses
              /\ status' \in {"no text", "no clauses"} ]_vars

\* an extraction that found no clauses, after one that stored two
C10_Witness ==
    /\ event.kind = "extract"
    /\ status = "no clauses"
    /\ session_state.tender_clauses # None
    /\ Len(session_state.tender_clauses[1]) = 2

====
